---- MODULE Spec2Model ----
(***************************************************************************)
(* Paper-trading engine of the pairs strategy (src/live/paper_engine.py):  *)
(* the PaperBroker ledger and the PairsLiveEngine.run loop.                *)
(*                                                                         *)
(* Python floats are modelled as exact decimal numbers of unbounded        *)
(* precision (sign, base-10^4 limbs, number of fractional limbs), plus the *)
(* value NaN.  Rounding of IEEE doubles is not modelled: every statement   *)
(* below is about exact arithmetic.                                        *)
(***************************************************************************)
EXTENDS Integers, Sequences, FiniteSets, TLC

----------------------------------------------------------------------------
(* Exact decimal arithmetic standing for Python's float operators.         *)

Base == 10^4

Zero == [s |-> 0, m |-> <<>>, e |-> 0]
NaN == [s |-> 2, m |-> <<>>, e |-> 0]

IsNaN(a) == a.s = 2

RECURSIVE Trim(_)
Trim(m) ==
  IF m = <<>> THEN m
  ELSE IF m[Len(m)] = 0 THEN Trim(SubSeq(m, 1, Len(m) - 1)) ELSE m

Limb(m, i) == IF i >= 1 /\ i <= Len(m) THEN m[i] ELSE 0

Shift(m, k) == [j \in 1..k |-> 0] \o m

RECURSIVE AddMR(_, _, _, _)
AddMR(a, b, i, c) ==
  IF i > Len(a) /\ i > Len(b)
  THEN (IF c = 0 THEN <<>> ELSE <<c>>)
  ELSE LET t == Limb(a, i) + Limb(b, i) + c
       IN  <<t % Base>> \o AddMR(a, b, i + 1, t \div Base)

AddM(a, b) == AddMR(a, b, 1, 0)

RECURSIVE SubMR(_, _, _, _)
SubMR(a, b, i, br) ==
  IF i > Len(a) THEN <<>>
  ELSE LET t == Limb(a, i) - Limb(b, i) - br
       IN  IF t < 0 THEN <<t + Base>> \o SubMR(a, b, i + 1, 1)
                    ELSE <<t>> \o SubMR(a, b, i + 1, 0)

SubM(a, b) == Trim(SubMR(a, b, 1, 0))

RECURSIVE CmpMR(_, _, _)
CmpMR(a, b, i) ==
  IF i = 0 THEN 0
  ELSE IF a[i] < b[i] THEN -1
  ELSE IF a[i] > b[i] THEN 1
  ELSE CmpMR(a, b, i - 1)

CmpM(a, b) ==
  IF Len(a) # Len(b) THEN (IF Len(a) < Len(b) THEN -1 ELSE 1)
  ELSE CmpMR(a, b, Len(a))

RECURSIVE MulLimbR(_, _, _, _)
MulLimbR(a, d, i, c) ==
  IF i > Len(a) THEN (IF c = 0 THEN <<>> ELSE <<c>>)
  ELSE LET t == a[i] * d + c
       IN  <<t % Base>> \o MulLimbR(a, d, i + 1, t \div Base)

RECURSIVE MulMR(_, _, _)
MulMR(a, b, j) ==
  IF j > Len(b) THEN <<>>
  ELSE AddM(Shift(MulLimbR(a, b[j], 1, 0), j - 1), MulMR(a, b, j + 1))

MulM(a, b) == Trim(MulMR(a, b, 1))

RECURSIVE StripLow(_, _)
StripLow(m, e) ==
  IF e > 0 /\ m # <<>> /\ m[1] = 0 THEN StripLow(Tail(m), e - 1) ELSE <<m, e>>

Norm(s, m, e) ==
  LET t == Trim(m)
  IN  IF t = <<>> \/ s = 0 THEN Zero
      ELSE LET p == StripLow(t, e) IN [s |-> s, m |-> p[1], e |-> p[2]]

RECURSIVE NatLimbs(_)
NatLimbs(n) == IF n = 0 THEN <<>> ELSE <<n % Base>> \o NatLimbs(n \div Base)

\* the float of the integer n
FromInt(n) ==
  IF n = 0 THEN Zero
  ELSE IF n < 0 THEN [s |-> -1, m |-> NatLimbs(-n), e |-> 0]
  ELSE [s |-> 1, m |-> NatLimbs(n), e |-> 0]

\* the float n * 10^(-4*e), e.g. Dec(2, 1) = 0.0002
Dec(n, e) == Norm(IF n < 0 THEN -1 ELSE 1, NatLimbs(IF n < 0 THEN -n ELSE n), e)

Neg(a) == IF IsNaN(a) \/ a.s = 0 THEN a ELSE [a EXCEPT !.s = -a.s]

Abs(a) == IF IsNaN(a) \/ a.s = 0 THEN a ELSE [a EXCEPT !.s = 1]

Add(a, b) ==
  IF IsNaN(a) \/ IsNaN(b) THEN NaN
  ELSE IF a.s = 0 THEN b
  ELSE IF b.s = 0 THEN a
  ELSE LET E  == IF a.e > b.e THEN a.e ELSE b.e
           am == Shift(a.m, E - a.e)
           bm == Shift(b.m, E - b.e)
           c  == CmpM(am, bm)
       IN  IF a.s = b.s THEN Norm(a.s, AddM(am, bm), E)
           ELSE IF c = 0 THEN Zero
           ELSE IF c > 0 THEN Norm(a.s, SubM(am, bm), E)
           ELSE Norm(b.s, SubM(bm, am), E)

Sub(a, b) == Add(a, Neg(b))

Mul(a, b) ==
  IF IsNaN(a) \/ IsNaN(b) THEN NaN
  ELSE IF a.s = 0 \/ b.s = 0 THEN Zero
  ELSE Norm(a.s * b.s, MulM(a.m, b.m), a.e + b.e)

\* comparisons: every comparison with NaN is false
Lt(a, b) == ~IsNaN(a) /\ ~IsNaN(b) /\ Sub(a, b).s = -1
Gt(a, b) == Lt(b, a)
Le(a, b) == ~IsNaN(a) /\ ~IsNaN(b) /\ Sub(a, b).s # 1

\* Python's min(a, b) and max(a, b): the first argument unless the second
\* compares smaller (larger)
PyMin(a, b) == IF Lt(b, a) THEN b ELSE a
PyMax(a, b) == IF Gt(b, a) THEN b ELSE a

\* a / b for a divisor with one non-zero limb d, d dividing 10^8 (every
\* divisor the inputs below produce); the quotient is then a finite decimal
Recip(b) ==
  LET j == CHOOSE k \in 1..Len(b.m) : b.m[k] # 0
      p == j - 1 - b.e
      q == NatLimbs((Base * Base) \div b.m[j])
  IN  IF -p - 2 >= 0 THEN Norm(b.s, Shift(q, -p - 2), 0)
      ELSE Norm(b.s, q, p + 2)

Div(a, b) == IF IsNaN(a) \/ IsNaN(b) THEN NaN ELSE Mul(a, Recip(b))

----------------------------------------------------------------------------
(* Bounds of the model.                                                    *)

\* number of dates of the joined data frame the run iterates over
MaxDates == 3

\* number of ledger calls explored when the ledger is driven on its own
MaxCalls == 2

----------------------------------------------------------------------------
(* Module constants and the inputs explored.                               *)

TRANSACTION_COST == Dec(2, 1)          \* 0.0002

\* the literal 1e-6 (floor of entry_z in the sizing, no-trade tolerance)
Eps == Dec(100, 2)

\* the pair "KO_PEP" split at "_"
y_ticker == "KO"
x_ticker == "PEP"

Tickers == {y_ticker, x_ticker}

Half == Dec(5000, 1)                   \* 0.5

\* constructor arguments and the fitted hedge ratio; every one satisfies
\* entry_z > exit_z >= 0 and 0 < risk_frac <= 1 (the first holds the default
\* thresholds and risk fraction)
Configs ==
  { [starting_cash |-> FromInt(2), entry_z |-> FromInt(2), exit_z |-> Half,
     risk_frac |-> Half, beta |-> FromInt(1)],
    [starting_cash |-> FromInt(1), entry_z |-> FromInt(1), exit_z |-> Zero,
     risk_frac |-> FromInt(1), beta |-> FromInt(-1)] }

\* constructor arguments main() passes through unchecked: thresholds with
\* exit_z >= entry_z or exit_z < 0, risk_frac outside (0, 1]
BadConfigs ==
  { [starting_cash |-> FromInt(1), entry_z |-> Half, exit_z |-> FromInt(2),
     risk_frac |-> Half, beta |-> FromInt(1)],
    [starting_cash |-> FromInt(1), entry_z |-> FromInt(2), exit_z |-> FromInt(2),
     risk_frac |-> Half, beta |-> FromInt(1)],
    [starting_cash |-> FromInt(1), entry_z |-> FromInt(2), exit_z |-> Neg(Half),
     risk_frac |-> Half, beta |-> FromInt(1)],
    [starting_cash |-> FromInt(1), entry_z |-> FromInt(2), exit_z |-> Half,
     risk_frac |-> FromInt(2), beta |-> FromInt(1)],
    [starting_cash |-> FromInt(1), entry_z |-> FromInt(2), exit_z |-> Half,
     risk_frac |-> Zero, beta |-> FromInt(1)] }

\* z-scores of a row: null, inside the exit band, on the exit and entry
\* thresholds of the defaults, entry triggers of both signs (-5 is beyond the
\* 2x cap of the sizing)
ZValues == {NaN, Zero, Half, FromInt(2), FromInt(3), FromInt(-5)}

\* (price_y, price_x) of a row of the cleaned price file: positive, non-null
PricePairs ==
  { <<FromInt(300000), FromInt(100000)>>, <<FromInt(900000), FromInt(100000)>> }

\* rows of a price file that was not cleaned: a leg may be null
RawPricePairs ==
  { <<FromInt(300000), FromInt(100000)>>, <<NaN, FromInt(100000)>>,
    <<FromInt(300000), NaN>> }

\* arguments of direct ledger calls
CallQtys == {FromInt(-2), Half}
CallPrices == {FromInt(-1), Zero, FromInt(4)}

----------------------------------------------------------------------------
(* State.                                                                  *)

VARIABLES
  cash, positions, trades, fees_paid,      \* PaperBroker fields
  cfg,                                     \* PairsLiveEngine fields set by __init__
  pc,                                      \* "run": in the loop of run(); "done": run() returned
                                           \* "ledger": the broker is driven directly
                                           \* "signals": signals.py computes the columns
  data,                                    \* rows of self.data the loop has consumed
  current_pos,                             \* run(): current_pos
  equity_now,                              \* run(): equity_now of the latest rebalance
  equity_curve, positions_y, positions_x, signals,   \* run(): output lists
  call                                     \* arguments of the latest direct ledger call

vars == <<cash, positions, trades, fees_paid, cfg, pc, data, current_pos,
          equity_now, equity_curve, positions_y, positions_x, signals, call>>

Broker == [cash |-> cash, positions |-> positions, trades |-> trades,
           fees_paid |-> fees_paid]

----------------------------------------------------------------------------
(* PaperBroker.                                                            *)

PaperBroker(starting_cash) ==
  [cash |-> starting_cash, positions |-> [t \in {} |-> Zero], trades |-> <<>>,
   fees_paid |-> Zero]

ensure_ticker(pos, ticker) ==
  IF ticker \in DOMAIN pos THEN pos ELSE pos @@ (ticker :> Zero)

\* trade with the fee taken on the signed notional (abs() forgotten)
trade_signed_fee(b, date, ticker, qty, price, leg) ==
  LET pos0     == ensure_ticker(b.positions, ticker)
      notional == Mul(qty, price)
      cost     == Mul(notional, TRANSACTION_COST)
  IN  [positions |-> [pos0 EXCEPT ![ticker] = Add(@, qty)],
       cash      |-> Sub(Sub(b.cash, notional), cost),
       fees_paid |-> Add(b.fees_paid, cost),
       trades    |-> Append(b.trades,
                       [date |-> date, leg |-> leg, ticker |-> ticker,
                        qty |-> qty, price |-> price, notional |-> notional])]

\* trade with the fee accumulated but not taken from cash
trade_fee_not_charged(b, date, ticker, qty, price, leg) ==
  LET pos0     == ensure_ticker(b.positions, ticker)
      notional == Mul(qty, price)
      cost     == Mul(Abs(notional), TRANSACTION_COST)
  IN  [positions |-> [pos0 EXCEPT ![ticker] = Add(@, qty)],
       cash      |-> Sub(b.cash, notional),
       fees_paid |-> Add(b.fees_paid, cost),
       trades    |-> Append(b.trades,
                       [date |-> date, leg |-> leg, ticker |-> ticker,
                        qty |-> qty, price |-> price, notional |-> notional])]

\* trade with the holding assigned (=) instead of accumulated (+=)
trade_sets_holding(b, date, ticker, qty, price, leg) ==
  LET pos0     == ensure_ticker(b.positions, ticker)
      notional == Mul(qty, price)
      cost     == Mul(Abs(notional), TRANSACTION_COST)
  IN  [positions |-> [pos0 EXCEPT ![ticker] = qty],
       cash      |-> Sub(Sub(b.cash, notional), cost),
       fees_paid |-> Add(b.fees_paid, cost),
       trades    |-> Append(b.trades,
                       [date |-> date, leg |-> leg, ticker |-> ticker,
                        qty |-> qty, price |-> price, notional |-> notional])]

trade(b, date, ticker, qty, price, leg) ==
  LET pos0     == ensure_ticker(b.positions, ticker)
      notional == Mul(qty, price)
      cost     == Mul(Abs(notional), TRANSACTION_COST)
  IN  [positions |-> [pos0 EXCEPT ![ticker] = Add(@, qty)],
       cash      |-> Sub(Sub(b.cash, notional), cost),
       fees_paid |-> Add(b.fees_paid, cost),
       trades    |-> Append(b.trades,
                       [date |-> date, leg |-> leg, ticker |-> ticker,
                        qty |-> qty, price |-> price, notional |-> notional])]

position(b, ticker) ==
  IF ticker \in DOMAIN b.positions THEN b.positions[ticker] ELSE Zero

RECURSIVE SumValue(_, _, _)
SumValue(pos, prices, S) ==
  IF S = {} THEN Zero
  ELSE LET t == CHOOSE u \in S : TRUE
       IN  Add(Mul(pos[t], prices[t]), SumValue(pos, prices, S \ {t}))

portfolio_value(b, prices) ==
  Add(b.cash, SumValue(b.positions, prices,
                       DOMAIN b.positions \cap DOMAIN prices))

----------------------------------------------------------------------------
(* PairsLiveEngine.run: one iteration of the loop over the dates.          *)

\* Signal with the entry test made against exit_z
Signal_exit_threshold(z) ==
  IF Gt(z, cfg.exit_z) THEN -1
  ELSE IF Lt(z, Neg(cfg.exit_z)) THEN 1
  ELSE 0

\* Signal with the entry thresholds included (>= and <=)
Signal_inclusive(z) ==
  IF Le(cfg.entry_z, z) THEN -1
  ELSE IF Le(z, Neg(cfg.entry_z)) THEN 1
  ELSE 0

\* lines 163-169
Signal(z) ==
  IF Gt(z, cfg.entry_z) THEN -1
  ELSE IF Lt(z, Neg(cfg.entry_z)) THEN 1
  ELSE 0

\* TargetPos with the exit test written as "not abs(z) >= exit_z", which a
\* null z passes
TargetPos_null_exits(cur, z) ==
  IF Signal(z) # 0 THEN Signal(z)
  ELSE IF ~Le(cfg.exit_z, Abs(z)) THEN 0
  ELSE cur

\* lines 171-175
TargetPos(cur, z) ==
  IF Signal(z) # 0 THEN Signal(z)
  ELSE IF Lt(Abs(z), cfg.exit_z) THEN 0
  ELSE cur

\* lines 179-184: the sizing unit from the equity before the rebalance
Unit(equity, z, price_y, price_x) ==
  LET base_notional   == Mul(cfg.risk_frac, equity)
      z_scale         == PyMin(FromInt(2), Div(Abs(z), PyMax(cfg.entry_z, Eps)))
      spread_notional == Mul(base_notional, z_scale)
  IN  Div(spread_notional, Add(price_y, Mul(Abs(cfg.beta), price_x)))

\* Rebalance submitting the desired quantities instead of the deltas
Rebalance_no_delta(b, date, target_pos, unit, price_y, price_x) ==
  LET trade_y == Mul(FromInt(target_pos), unit)
      trade_x == Mul(Mul(FromInt(-target_pos), cfg.beta), unit)
      b1      == IF Gt(Abs(trade_y), Eps)
                 THEN trade(b, date, y_ticker, trade_y, price_y, "Y")
                 ELSE b
  IN  IF Gt(Abs(trade_x), Eps)
      THEN trade(b1, date, x_ticker, trade_x, price_x, "X")
      ELSE b1

\* lines 186-198: the ledger after the executions of a rebalance
Rebalance(b, date, target_pos, unit, price_y, price_x) ==
  LET desired_y == Mul(FromInt(target_pos), unit)
      desired_x == Mul(Mul(FromInt(-target_pos), cfg.beta), unit)
      trade_y   == Sub(desired_y, position(b, y_ticker))
      trade_x   == Sub(desired_x, position(b, x_ticker))
      b1        == IF Gt(Abs(trade_y), Eps)
                   THEN trade(b, date, y_ticker, trade_y, price_y, "Y")
                   ELSE b
  IN  IF Gt(Abs(trade_x), Eps)
      THEN trade(b1, date, x_ticker, trade_x, price_x, "X")
      ELSE b1

\* StepOn with the rebalance entered whenever the target is not FLAT, so
\* that a held position is sized again
StepOn_resize_held(pairs) ==
  /\ pc = "run"
  /\ Len(data) < MaxDates
  /\ \E z \in ZValues, pp \in pairs :
       LET date       == Len(data) + 1
           price_y    == pp[1]
           price_x    == pp[2]
           prices     == (y_ticker :> price_y) @@ (x_ticker :> price_x)
           target_pos == TargetPos(current_pos, z)
           eq0        == portfolio_value(Broker, prices)
           b1         == IF (target_pos # current_pos \/ target_pos # 0)
                         THEN Rebalance(Broker, date, target_pos,
                                        Unit(eq0, z, price_y, price_x),
                                        price_y, price_x)
                         ELSE Broker
       IN  /\ data' = Append(data, [price_y |-> price_y, price_x |-> price_x,
                                    z |-> z])
           /\ equity_now' = IF (target_pos # current_pos \/ target_pos # 0) THEN eq0 ELSE equity_now
           /\ cash' = b1.cash
           /\ positions' = b1.positions
           /\ trades' = b1.trades
           /\ fees_paid' = b1.fees_paid
           /\ current_pos' = target_pos
           /\ equity_curve' = Append(equity_curve, portfolio_value(b1, prices))
           /\ positions_y' = Append(positions_y, position(b1, y_ticker))
           /\ positions_x' = Append(positions_x, position(b1, x_ticker))
           /\ signals' = Append(signals, target_pos)
  /\ UNCHANGED <<cfg, pc, call>>

\* lines 157-205, the row drawn from the given sets
StepOn(pairs) ==
  /\ pc = "run"
  /\ Len(data) < MaxDates
  /\ \E z \in ZValues, pp \in pairs :
       LET date       == Len(data) + 1
           price_y    == pp[1]
           price_x    == pp[2]
           prices     == (y_ticker :> price_y) @@ (x_ticker :> price_x)
           target_pos == TargetPos(current_pos, z)
           eq0        == portfolio_value(Broker, prices)
           b1         == IF target_pos # current_pos
                         THEN Rebalance(Broker, date, target_pos,
                                        Unit(eq0, z, price_y, price_x),
                                        price_y, price_x)
                         ELSE Broker
       IN  /\ data' = Append(data, [price_y |-> price_y, price_x |-> price_x,
                                    z |-> z])
           /\ equity_now' = IF target_pos # current_pos THEN eq0 ELSE equity_now
           /\ cash' = b1.cash
           /\ positions' = b1.positions
           /\ trades' = b1.trades
           /\ fees_paid' = b1.fees_paid
           /\ current_pos' = target_pos
           /\ equity_curve' = Append(equity_curve, portfolio_value(b1, prices))
           /\ positions_y' = Append(positions_y, position(b1, y_ticker))
           /\ positions_x' = Append(positions_x, position(b1, x_ticker))
           /\ signals' = Append(signals, target_pos)
  /\ UNCHANGED <<cfg, pc, call>>

Step == StepOn(PricePairs)

StepRaw == StepOn(RawPricePairs)

\* lines 207-222: the dates are exhausted, the result frame is built and returned
Finish ==
  /\ pc = "run"
  /\ pc' = "done"
  /\ UNCHANGED <<cash, positions, trades, fees_paid, cfg, data, current_pos,
                 equity_now, equity_curve, positions_y, positions_x, signals,
                 call>>

\* a direct call of PaperBroker.trade
Trade ==
  /\ pc = "ledger"
  /\ Len(trades) < MaxCalls
  /\ \E ticker \in Tickers, qty \in CallQtys, price \in CallPrices,
        leg \in {"Y", "X"} :
       LET date == Len(trades) + 1
           b1 == trade(Broker, date, ticker, qty, price, leg)
       IN  /\ call' = [date |-> date, ticker |-> ticker, qty |-> qty,
                       price |-> price, leg |-> leg]
           /\ cash' = b1.cash
           /\ positions' = b1.positions
           /\ trades' = b1.trades
           /\ fees_paid' = b1.fees_paid
  /\ UNCHANGED <<cfg, pc, data, current_pos, equity_now, equity_curve,
                 positions_y, positions_x, signals>>

NoCall == [date |-> 0, ticker |-> "", qty |-> Zero, price |-> Zero, leg |-> ""]

\* the engine after __init__, at the top of run()
InitWith(configs, start) ==
  /\ cfg \in configs
  /\ LET b == PaperBroker(cfg.starting_cash)
     IN  /\ cash = b.cash
         /\ positions = b.positions
         /\ trades = b.trades
         /\ fees_paid = b.fees_paid
  /\ pc = start
  /\ data = <<>>
  /\ current_pos = 0
  /\ equity_now = Zero
  /\ equity_curve = <<>>
  /\ positions_y = <<>>
  /\ positions_x = <<>>
  /\ signals = <<>>
  /\ call = NoCall

Init == InitWith(Configs, "run")

Next == Step \/ Finish

Spec == Init /\ [][Next]_vars

\* the run over a price file with null prices
NextRaw == StepRaw \/ Finish

SpecRaw == Init /\ [][NextRaw]_vars

\* the run under constructor arguments outside the documented ranges
InitBadConfig == InitWith(BadConfigs, "run")

SpecBadConfig == InitBadConfig /\ [][Next]_vars

\* the ledger driven on its own
InitLedger == InitWith(Configs, "ledger")

NextLedger == Trade

SpecLedger == InitLedger /\ [][NextLedger]_vars

----------------------------------------------------------------------------
(* src/features/signals.py: the batch signal generator.                    *)

ENTRY_Z == FromInt(2)
EXIT_Z == Half

\* lines 28-31: the signal column
SignalColumn(z) ==
  [i \in 1..Len(z) |->
     IF Lt(z[i], Neg(ENTRY_Z)) THEN 1
     ELSE IF Gt(z[i], ENTRY_Z) THEN -1
     ELSE 0]

\* lines 35-37: the loop from index i on, a zero taking the entry before it
RECURSIVE ForwardFill(_, _)
ForwardFill(position_col, i) ==
  IF i > Len(position_col) THEN position_col
  ELSE ForwardFill(IF position_col[i] = 0
                   THEN [position_col EXCEPT ![i] = position_col[i - 1]]
                   ELSE position_col,
                   i + 1)

\* lines 39-40: the rows with |z| < EXIT_Z set to 0
FlatMask(position_col, z) ==
  [i \in 1..Len(z) |->
     IF Lt(Abs(z[i]), EXIT_Z) THEN 0 ELSE position_col[i]]

\* _compute_signals(z): the columns signal and position
compute_signals(z) ==
  [signal   |-> SignalColumn(z),
   position |-> FlatMask(ForwardFill(SignalColumn(z), 2), z)]

ZColumn(rows) == [i \in 1..Len(rows) |-> rows[i].z]

\* signals.main on a hedge-results file one row longer: the position column
\* of the whole z column
ComputeSignals ==
  /\ pc = "signals"
  /\ Len(data) < MaxDates
  /\ \E z \in ZValues, pp \in PricePairs :
       /\ data' = Append(data, [price_y |-> pp[1], price_x |-> pp[2], z |-> z])
       /\ signals' = compute_signals(ZColumn(data')).position
  /\ UNCHANGED <<cash, positions, trades, fees_paid, cfg, pc, current_pos,
                 equity_now, equity_curve, positions_y, positions_x, call>>

InitSignals == InitWith(Configs, "signals")

NextSignals == ComputeSignals

SpecSignals == InitSignals /\ [][NextSignals]_vars

----------------------------------------------------------------------------
(* Properties.                                                             *)

Last(q) == q[Len(q)]

PrevSignal(k) == IF k = 1 THEN 0 ELSE signals[k - 1]

\* C1: starting from FLAT, the position recorded at every step is the 4.3
\* rule applied to the step's z and the previous position: -1 if
\* z > entry_z, else +1 if z < -entry_z, else 0 if |z| < exit_z, else (z in
\* the band between the thresholds, or null) the previous position.
C1_PositionFollowsRule ==
  /\ Len(signals) = Len(data)
  /\ \A k \in 1..Len(signals) :
       LET z == data[k].z
       IN  IF IsNaN(z) THEN signals[k] = PrevSignal(k)
           ELSE IF Gt(z, cfg.entry_z) THEN signals[k] = -1
           ELSE IF Lt(z, Neg(cfg.entry_z)) THEN signals[k] = 1
           ELSE IF Lt(Abs(z), cfg.exit_z) THEN signals[k] = 0
           ELSE signals[k] = PrevSignal(k)

\* a short entry, held through a null z, then closed
C1_Witness ==
  /\ Len(signals) = 3
  /\ signals[1] = -1
  /\ IsNaN(data[2].z) /\ signals[2] = -1
  /\ signals[3] = 0

\* C2: a call trade(date, ticker, qty, price, leg) adds qty to the holding of
\* the ticker (from 0 if absent), takes qty*price and the fee
\* |qty*price| * TRANSACTION_COST from cash, adds the fee to fees_paid and
\* appends exactly one Trade record with the arguments and the notional.
C2_TradeEffect ==
  [][ trades' # trades =>
        LET c        == call'
            notional == Mul(c.qty, c.price)
            fee      == Mul(Abs(notional), TRANSACTION_COST)
        IN  /\ trades' = Append(trades,
                           [date |-> c.date, leg |-> c.leg, ticker |-> c.ticker,
                            qty |-> c.qty, price |-> c.price,
                            notional |-> notional])
            /\ DOMAIN positions' = DOMAIN positions \cup {c.ticker}
            /\ positions'[c.ticker] = Add(position(Broker, c.ticker), c.qty)
            /\ \A t \in DOMAIN positions \ {c.ticker} :
                 positions'[t] = positions[t]
            /\ cash' = Sub(Sub(cash, notional), fee)
            /\ Le(Zero, fee)
            /\ fees_paid' = Add(fees_paid, fee) ]_vars

\* a buy followed by a sell of the same ticker
C2_Witness ==
  /\ pc = "ledger"
  /\ Len(trades) = 2
  /\ trades[1].ticker = trades[2].ticker
  /\ trades[1].qty.s = 1
  /\ trades[2].qty.s = -1
  /\ trades[2].price.s = 1

\* C3: a ledger call with price <= 0 fails and leaves cash, holdings, fees
\* and the trade log as they were.
C3_NonPositivePriceRejected ==
  [][ Le(call'.price, Zero) =>
        UNCHANGED <<cash, positions, trades, fees_paid>> ]_vars

NullPriceAt(k) == IsNaN(data[k].price_y) \/ IsNaN(data[k].price_x)

\* C4: a step whose row lacks a leg price aborts the run: no equity value is
\* recorded for that step, no trade is dated at that step or later, and the
\* run does not return a result.
C4_MissingPriceAborts ==
  \A k \in 1..Len(data) :
    NullPriceAt(k) =>
      /\ Len(equity_curve) < k
      /\ \A j \in 1..Len(trades) : trades[j].date < k
      /\ pc # "done"

ValidConfig(c) ==
  /\ Lt(c.exit_z, c.entry_z)
  /\ Le(Zero, c.exit_z)
  /\ Gt(c.risk_frac, Zero)
  /\ Le(c.risk_frac, FromInt(1))

\* C5: under an invalid configuration (exit_z >= entry_z, exit_z < 0 or
\* risk_frac outside (0, 1]) no step is simulated and no trade is executed.
C5_BadConfigRejected ==
  ~ValidConfig(cfg) => (data = <<>> /\ trades = <<>> /\ pc # "done")

\* C6: at every step that rebalances, the portfolio value recorded after the
\* executions equals the value computed before them at the same prices
\* minus the fees those executions were charged.
C6_RebalanceValue ==
  [][ (data' # data /\ current_pos' # current_pos) =>
        Last(equity_curve') =
          Sub(equity_now', Sub(fees_paid', fees_paid)) ]_vars

\* a first rebalance with both legs executed and a fee charged
C6_Witness ==
  /\ Len(data) = 1
  /\ Len(trades) = 2
  /\ Gt(fees_paid, Zero)
  /\ Lt(equity_curve[1], equity_now)

\* C7 as stated: the recorded position never goes from +1 at one step to -1
\* at the next, nor from -1 to +1.
C7_NoDirectReversal ==
  \A k \in 2..Len(signals) : signals[k - 1] * signals[k] # -1

\* C7 as amended: the recorded position reverses directly only at a step
\* whose own z is the opposite entry trigger; a step whose z is strictly
\* inside the exit band records FLAT.
C7_ReversalOnlyOnTrigger ==
  \A k \in 1..Len(signals) :
    /\ (PrevSignal(k) = 1 /\ signals[k] = -1) => Gt(data[k].z, cfg.entry_z)
    /\ (PrevSignal(k) = -1 /\ signals[k] = 1) =>
         Lt(data[k].z, Neg(cfg.entry_z))
    /\ Lt(Abs(data[k].z), cfg.exit_z) => signals[k] = 0

\* a long position reversed to short at the next step
C7_Witness ==
  \E k \in 2..Len(signals) : signals[k - 1] = 1 /\ signals[k] = -1

\* C8: after a step that changes the position to a non-flat target the
\* holdings are pos_y = target * unit and pos_x = -target * beta * unit, unit
\* computed from the equity before the step, and the Y holding has the sign
\* of the target.
C8_SizingOnEntry ==
  [][ (data' # data /\ current_pos' # current_pos /\ current_pos' # 0) =>
        LET row  == Last(data')
            unit == Unit(equity_now', row.z, row.price_y, row.price_x)
        IN  /\ Last(positions_y') = Mul(FromInt(current_pos'), unit)
            /\ Last(positions_x') =
                 Mul(Mul(FromInt(-current_pos'), cfg.beta), unit)
            /\ Last(positions_y').s = current_pos' ]_vars

\* C9: a step whose z is strictly inside the exit band records FLAT, and at
\* every recorded FLAT step both holdings are within 1e-6 of zero.
C9_FlatIsUnwound ==
  \A k \in 1..Len(signals) :
    /\ Lt(Abs(data[k].z), cfg.exit_z) => signals[k] = 0
    /\ signals[k] = 0 =>
         /\ Le(Abs(positions_y[k]), Eps)
         /\ Le(Abs(positions_x[k]), Eps)

\* a held position closed by a z inside the exit band, both legs unwound
C9_Witness ==
  \E k \in 2..Len(signals) :
    /\ signals[k - 1] # 0
    /\ positions_y[k - 1] # Zero /\ positions_x[k - 1] # Zero
    /\ Lt(Abs(data[k].z), cfg.exit_z)
    /\ signals[k] = 0
    /\ positions_y[k] = Zero /\ positions_x[k] = Zero

NoEntryTriggerSoFar ==
  \A k \in 1..Len(data) :
    IsNaN(data[k].z) \/ Le(Abs(data[k].z), cfg.entry_z)

\* C10: while no step has had an entry trigger the position is FLAT, the
\* trade log is empty, no fee was paid and every recorded equity equals
\* starting_cash.
C10_NoTriggerNoTrade ==
  NoEntryTriggerSoFar =>
    /\ current_pos = 0
    /\ \A k \in 1..Len(signals) : signals[k] = 0
    /\ trades = <<>>
    /\ fees_paid = Zero
    /\ \A k \in 1..Len(equity_curve) : equity_curve[k] = cfg.starting_cash

\* three steps without a trigger, z on the entry threshold, prices moving
C10_Witness ==
  /\ Len(data) = 3
  /\ NoEntryTriggerSoFar
  /\ \E k \in 1..3 : data[k].z = cfg.entry_z
  /\ data[1].price_y # data[2].price_y
  /\ equity_curve[3] = cfg.starting_cash

\* C11: a step whose target equals the current position executes nothing
\* (cash, holdings, fees and the trade log are unchanged) and still records
\* its equity and position, so the output lists have one entry per date.
C11_HoldStepExecutesNothing ==
  [][ data' # data =>
        /\ Len(data') = Len(data) + 1
        /\ Len(equity_curve') = Len(data')
        /\ Len(signals') = Len(data')
        /\ Len(positions_y') = Len(data')
        /\ Len(positions_x') = Len(data')
        /\ Last(signals') = current_pos'
        /\ current_pos' = current_pos =>
             /\ UNCHANGED <<cash, positions, trades, fees_paid>>
             /\ Last(equity_curve') =
                  portfolio_value(Broker, (y_ticker :> Last(data').price_y)
                                       @@ (x_ticker :> Last(data').price_x)) ]_vars

\* a held short position through a null z, a z between the thresholds and a
\* repeated short trigger: the two trades of the entry and nothing more
C11_Witness ==
  /\ Len(data) = 3
  /\ signals = <<-1, -1, -1>>
  /\ \E k \in 2..3 : IsNaN(data[k].z) \/ Gt(data[k].z, cfg.entry_z)
  /\ data[2].price_y # data[1].price_y
  /\ Len(trades) = 2
  /\ trades[2].date = 1
  /\ Len(equity_curve) = 3

\* C12: the position column of _compute_signals is, step by step, the 4.3
\* rule with ENTRY_Z and EXIT_Z applied to the step's z and the previous
\* position of the column, starting from FLAT; in particular a z between the
\* thresholds keeps the previous step's position.
C12_BatchFollowsRule ==
  pc = "signals" =>
    /\ Len(signals) = Len(data)
    /\ \A k \in 1..Len(signals) :
         LET z == data[k].z
         IN  IF Gt(z, ENTRY_Z) THEN signals[k] = -1
             ELSE IF Lt(z, Neg(ENTRY_Z)) THEN signals[k] = 1
             ELSE IF Lt(Abs(z), EXIT_Z) THEN signals[k] = 0
             ELSE signals[k] = PrevSignal(k)

\* sums over the first n records of a trade log
RECURSIVE SumQty(_, _, _)
SumQty(log, ticker, n) ==
  IF n = 0 THEN Zero
  ELSE Add(SumQty(log, ticker, n - 1),
           IF log[n].ticker = ticker THEN log[n].qty ELSE Zero)

RECURSIVE SumNotional(_, _)
SumNotional(log, n) ==
  IF n = 0 THEN Zero ELSE Add(SumNotional(log, n - 1), log[n].notional)

RECURSIVE SumAbsNotional(_, _)
SumAbsNotional(log, n) ==
  IF n = 0 THEN Zero ELSE Add(SumAbsNotional(log, n - 1), Abs(log[n].notional))

LedgerMatchesLog(b, starting_cash) ==
  /\ \A t \in Tickers : position(b, t) = SumQty(b.trades, t, Len(b.trades))
  /\ b.fees_paid = Mul(TRANSACTION_COST, SumAbsNotional(b.trades, Len(b.trades)))
  /\ b.cash = Sub(Sub(starting_cash, SumNotional(b.trades, Len(b.trades))),
                  b.fees_paid)

BrokerNext ==
  [cash |-> cash', positions |-> positions', trades |-> trades',
   fees_paid |-> fees_paid']

LogOnlyGrows ==
  LET n == Len(trades)
  IN  /\ Len(trades') \in n..(n + 2)
      /\ SubSeq(trades', 1, n) = trades
      /\ Len(trades') = n + 2 =>
           /\ trades'[n + 1].leg = "Y" /\ trades'[n + 1].ticker = y_ticker
           /\ trades'[n + 2].leg = "X" /\ trades'[n + 2].ticker = x_ticker

\* C13: the trade log only grows, by at most two records per step (Y before
\* X), its earlier records unchanged; each holding is the sum of qty over the
\* ticker's records, fees_paid is TRANSACTION_COST times the sum of
\* |notional|, and cash is starting_cash minus the sum of notional minus
\* fees_paid.
C13_LedgerConsistentWithLog ==
  /\ LedgerMatchesLog(Broker, cfg.starting_cash)
  /\ [][LogOnlyGrows /\ LedgerMatchesLog(BrokerNext, cfg'.starting_cash)]_vars

\* an entry, a reversal and an exit, two records each
C13_Witness ==
  /\ Len(data) = 3
  /\ signals[1] # 0 /\ signals[2] = -signals[1] /\ signals[3] = 0
  /\ Len(trades) = 6
  /\ \A j \in 1..3 : trades[2 * j - 1].date = j /\ trades[2 * j].date = j
  /\ Gt(fees_paid, Zero)

====
